---- MODULE Spec2Model ----
(***************************************************************************)
(* dynlock: dynamo-style sharded readers-writer locks.                     *)
(*                                                                         *)
(*  - keyed variant  (src/dynlock_ht.hpp): a table of N shared mutexes,    *)
(*    K hash-derived candidates per key, general template (random         *)
(*    subsets) and the R=1, W=K specialization;                            *)
(*  - fixed variant  (src/unnamed/part_000): K = 2^bits shared mutexes     *)
(*    for one resource, handle class shared_timed_mutex.                   *)
(*                                                                         *)
(* Every underlying mutex operation is one step; a blocking operation is   *)
(* a step whose guard is the availability of the mutex.                    *)
(***************************************************************************)
EXTENDS Naturals, Sequences, FiniteSets

(* ------------------------------ bounds --------------------------------- *)

\* threads calling into one lock structure
NumThreads == 2
\* largest template argument bits of the fixed variant that is explored
Bits == 1
\* largest candidate-pool size K of the keyed variant that is explored
MaxK == 2
\* largest lock-table size N of the keyed variant that is explored
MaxN == 3
\* keys are identified with their hash values 0..MaxKey
MaxKey == 1

Threads == 1..NumThreads
NoThread == 0
Keys == 0..MaxKey

VARIABLES
  cfg,      \* keyed: template arguments [N, K, R, W]
  locks,    \* keyed: SharedMutex _locks[N]
  pc,       \* keyed: where each thread is in its call
  key,      \* keyed: the key of the call in progress
  tok,      \* keyed: the token of the call in progress
  pos,      \* keyed: loop position of the call in progress
  misuse,   \* keyed: an unlock/unlock_shared hit a mutex the caller does not hold
  released, \* keyed: the last step was the return of an unlock/unlock_shared
  bits,     \* fixed: template argument bits
  flocks,   \* fixed: SharedTimedMutex _locks[K()]
  fpc,      \* fixed: where each handle's thread is in its call
  fop,      \* fixed: the member function being executed (or executed last)
  fi,       \* fixed: the loop variable size_t i of the call in progress
  lockid,   \* fixed: shared_timed_mutex::_lockid while it is live (every read
            \*        follows a write of the same acquisition), 0 otherwise
  ret,      \* fixed: bool ret of try_lock / try_lock_until, else the value a
            \*        try_*_shared call returned
  glocks,   \* side by side: _locks[N] of the general template run with R=1, W=K
  gtok      \* side by side: the tokens the general template returned

kvars == <<cfg, locks, pc, key, tok, pos, misuse, released>>
fvars == <<bits, flocks, fpc, fop, fi, lockid, ret>>
evars == <<glocks, gtok>>
vars == <<cfg, locks, pc, key, tok, pos, misuse, released,
          bits, flocks, fpc, fop, fi, lockid, ret, glocks, gtok>>

(* ------------------------ underlying shared mutex ---------------------- *)

\* a SharedMutex: its exclusive owner and the shared holds of each thread
FreeMutex == [excl |-> NoThread, shared |-> [t \in Threads |-> 0]]

NoShared(m) == \A t \in Threads : m.shared[t] = 0

\* SharedMutex::lock() can return
CanLock(m) == m.excl = NoThread /\ NoShared(m)

\* SharedMutex::lock_shared() can return
CanLockShared(m) == m.excl = NoThread

MutexLock(m, t) == [m EXCEPT !.excl = t]

MutexLockShared(m, t) == [m EXCEPT !.shared[t] = @ + 1]

\* SharedMutex::unlock() by its owner
MutexUnlock(m, t) == IF m.excl = t THEN [m EXCEPT !.excl = NoThread] ELSE m

\* SharedMutex::unlock_shared() by a holder
MutexUnlockShared(m, t) ==
  IF m.shared[t] > 0 THEN [m EXCEPT !.shared[t] = @ - 1] ELSE m

RECURSIVE UnlockAll(_, _, _)
\* unlock(), by thread t, of the mutexes of table l at the indices ss, in order
UnlockAll(l, ss, t) ==
  IF ss = <<>> THEN l
  ELSE UnlockAll([l EXCEPT ![Head(ss)] = MutexUnlock(@, t)], Tail(ss), t)

RECURSIVE BadUnlock(_, _, _)
\* one of those unlock() calls hits a mutex that t does not own
BadUnlock(l, ss, t) ==
  IF ss = <<>> THEN FALSE
  ELSE \/ l[Head(ss)].excl # t
       \/ BadUnlock([l EXCEPT ![Head(ss)] = MutexUnlock(@, t)], Tail(ss), t)

RECURSIVE UnlockSharedAll(_, _, _)
\* unlock_shared(), by thread t, of the mutexes of table l at the indices ss
UnlockSharedAll(l, ss, t) ==
  IF ss = <<>> THEN l
  ELSE UnlockSharedAll([l EXCEPT ![Head(ss)] = MutexUnlockShared(@, t)], Tail(ss), t)

RECURSIVE BadUnlockShared(_, _, _)
\* one of those unlock_shared() calls hits a mutex that t holds no share of
BadUnlockShared(l, ss, t) ==
  IF ss = <<>> THEN FALSE
  ELSE \/ l[Head(ss)].shared[t] = 0
       \/ BadUnlockShared([l EXCEPT ![Head(ss)] = MutexUnlockShared(@, t)], Tail(ss), t)

(* ----------------------------- keyed variant --------------------------- *)

RECURSIVE BitXor(_, _)
\* a ^ b on size_t
BitXor(a, b) ==
  IF a = 0 THEN b
  ELSE IF b = 0 THEN a
  ELSE (((a % 2) + (b % 2)) % 2) + (2 * BitXor(a \div 2, b \div 2))

\* std::hash<size_t> (the identity in libstdc++ and libc++)
ih(i) == i

\* std::hash<T>: keys are identified with their hash values
th(k) == k

\* dyn_lock::h
h(i, k) == BitXor(ih(i), th(k))

\* dyn_lock::get_lock: the lock-table index of seed i for key k
get_lock(i, k) == h(i, k) % cfg.N

\* dyn_lock::array_of_K: the vector 0, 1, ..., K-1
array_of_K == [i \in 1..cfg.K |-> i - 1]

\* every order std::random_shuffle can leave a vector in
Shuffles(s) ==
  { [i \in 1..Len(s) |-> s[p[i]]] :
      p \in { q \in [1..Len(s) -> 1..Len(s)] :
                \A i, j \in 1..Len(s) : i # j => q[i] # q[j] } }

\* std::vector::resize(n): truncate, or pad with value-initialised elements
Resize(s, n) == [i \in 1..n |-> IF i <= Len(s) THEN s[i] ELSE 0]

RECURSIVE Insert(_, _)
Insert(s, x) ==
  IF s = <<>> THEN <<x>>
  ELSE IF x <= Head(s) THEN <<x>> \o s
  ELSE <<Head(s)>> \o Insert(Tail(s), x)

RECURSIVE Sort(_)
\* std::sort, ascending
Sort(s) == IF s = <<>> THEN <<>> ELSE Insert(Sort(Tail(s)), Head(s))

\* hash_choices truncating to the complementary quorum size K - k + 1
hash_choices_complement(k) ==
  { Sort(Resize(s, cfg.K - k + 1)) : s \in Shuffles(array_of_K) }

\* dyn_lock::hash_choices(k): every vector the call can return
hash_choices(k) == { Sort(Resize(s, k)) : s \in Shuffles(array_of_K) }

\* the partial specialization dyn_lock<SharedMutex, N, K, 1, K> is selected
Specialized == cfg.R = 1 /\ cfg.W = cfg.K

\* the number of seeds lock_shared of the general template hands to hash_choices
lock_shared_count == cfg.W

Range(s) == { s[i] : i \in 1..Len(s) }

Configs ==
  { [N |-> n, K |-> k, R |-> r, W |-> w] :
      n \in 1..MaxN, k \in 1..MaxK, r \in 1..MaxK, w \in 1..MaxK }

KeyedInit ==
  /\ cfg \in { c \in Configs : c.R <= c.K /\ c.W <= c.K }
  /\ locks = [s \in 0..(cfg.N - 1) |-> FreeMutex]
  /\ pc = [t \in Threads |-> "idle"]
  /\ key = [t \in Threads |-> 0]
  /\ tok = [t \in Threads |-> <<>>]
  /\ pos = [t \in Threads |-> 0]
  /\ misuse = FALSE
  /\ released = FALSE
  \* the fixed variant is not in use
  /\ bits = 0
  /\ flocks = [i \in {0} |-> FreeMutex]
  /\ fpc = [t \in Threads |-> "unused"]
  /\ fop = [t \in Threads |-> "none"]
  /\ fi = [t \in Threads |-> 0]
  /\ lockid = [t \in Threads |-> 0]
  /\ ret = [t \in Threads |-> TRUE]
  /\ glocks = [s \in {0} |-> FreeMutex]
  /\ gtok = [t \in Threads |-> <<>>]

\* return to the caller of unlock/unlock_shared: the token is discarded
Finish(t) ==
  /\ pc' = [pc EXCEPT ![t] = "idle"]
  /\ key' = [key EXCEPT ![t] = 0]
  /\ tok' = [tok EXCEPT ![t] = <<>>]
  /\ pos' = [pos EXCEPT ![t] = 0]
  /\ released' = TRUE

\* ---- general template

\* dyn_lock::lock: token tok = hash_choices(W)
lock_call(t, k) ==
  /\ ~Specialized
  /\ pc[t] = "idle"
  /\ \E c \in hash_choices(cfg.W) :
       /\ tok' = [tok EXCEPT ![t] = c]
       /\ pos' = [pos EXCEPT ![t] = 1]
  /\ key' = [key EXCEPT ![t] = k]
  /\ pc' = [pc EXCEPT ![t] = "lock"]
  /\ UNCHANGED <<cfg, locks, misuse>>
  /\ released' = FALSE
  /\ UNCHANGED <<fvars, evars>>

\* dyn_lock::lock: one get_lock(i, key).lock() of the for_each, then return tok
lock_acquire(t) ==
  /\ ~Specialized
  /\ pc[t] = "lock"
  /\ LET s == get_lock(tok[t][pos[t]], key[t]) IN
       /\ CanLock(locks[s])
       /\ locks' = [locks EXCEPT ![s] = MutexLock(@, t)]
  /\ IF pos[t] = Len(tok[t])
       THEN /\ pc' = [pc EXCEPT ![t] = "locked"]
            /\ pos' = [pos EXCEPT ![t] = 1]
       ELSE /\ pos' = [pos EXCEPT ![t] = @ + 1]
            /\ UNCHANGED pc
  /\ UNCHANGED <<cfg, key, tok, misuse>>
  /\ released' = FALSE
  /\ UNCHANGED <<fvars, evars>>

\* dyn_lock::unlock: get_lock(i, key).unlock() for every i of the token
unlock(t) ==
  /\ ~Specialized
  /\ pc[t] = "locked"
  /\ LET ss == [n \in 1..Len(tok[t]) |-> get_lock(tok[t][n], key[t])] IN
       /\ locks' = UnlockAll(locks, ss, t)
       /\ misuse' = (misuse \/ BadUnlock(locks, ss, t))
  /\ Finish(t)
  /\ UNCHANGED cfg
  /\ UNCHANGED <<fvars, evars>>

\* dyn_lock::lock_shared: token tok = hash_choices(W)
lock_shared_call(t, k) ==
  /\ ~Specialized
  /\ pc[t] = "idle"
  /\ \E c \in hash_choices(lock_shared_count) :
       /\ tok' = [tok EXCEPT ![t] = c]
       /\ pos' = [pos EXCEPT ![t] = 1]
  /\ key' = [key EXCEPT ![t] = k]
  /\ pc' = [pc EXCEPT ![t] = "lock_shared"]
  /\ UNCHANGED <<cfg, locks, misuse>>
  /\ released' = FALSE
  /\ UNCHANGED <<fvars, evars>>

\* dyn_lock::lock_shared: one get_lock(i, key).lock_shared(), then return tok
lock_shared_acquire(t) ==
  /\ ~Specialized
  /\ pc[t] = "lock_shared"
  /\ LET s == get_lock(tok[t][pos[t]], key[t]) IN
       /\ CanLockShared(locks[s])
       /\ locks' = [locks EXCEPT ![s] = MutexLockShared(@, t)]
  /\ IF pos[t] = Len(tok[t])
       THEN /\ pc' = [pc EXCEPT ![t] = "shared"]
            /\ pos' = [pos EXCEPT ![t] = 1]
       ELSE /\ pos' = [pos EXCEPT ![t] = @ + 1]
            /\ UNCHANGED pc
  /\ UNCHANGED <<cfg, key, tok, misuse>>
  /\ released' = FALSE
  /\ UNCHANGED <<fvars, evars>>

\* dyn_lock::unlock_shared: get_lock(i, key).unlock_shared() for every i of the token
unlock_shared(t) ==
  /\ ~Specialized
  /\ pc[t] = "shared"
  /\ LET ss == [n \in 1..Len(tok[t]) |-> get_lock(tok[t][n], key[t])] IN
       /\ locks' = UnlockSharedAll(locks, ss, t)
       /\ misuse' = (misuse \/ BadUnlockShared(locks, ss, t))
  /\ Finish(t)
  /\ UNCHANGED cfg
  /\ UNCHANGED <<fvars, evars>>

\* ---- specialization R = 1, W = K; pos is the loop variable i, the scalar
\* ---- token is kept as a one-element sequence

\* dyn_lock<SharedMutex,N,K,1,K>::lock: enter the loop, i = 0
spec_lock_call(t, k) ==
  /\ Specialized
  /\ pc[t] = "idle"
  /\ key' = [key EXCEPT ![t] = k]
  /\ pos' = [pos EXCEPT ![t] = 0]
  /\ pc' = [pc EXCEPT ![t] = "lock"]
  /\ UNCHANGED <<cfg, locks, tok, misuse>>
  /\ released' = FALSE
  /\ UNCHANGED <<fvars, evars>>

\* dyn_lock<SharedMutex,N,K,1,K>::lock: get_lock(i, key).lock(); ++i; return 0
spec_lock_acquire(t) ==
  /\ Specialized
  /\ pc[t] = "lock"
  /\ LET s == get_lock(pos[t], key[t]) IN
       /\ CanLock(locks[s])
       /\ locks' = [locks EXCEPT ![s] = MutexLock(@, t)]
  /\ IF pos[t] + 1 < cfg.K
       THEN /\ pos' = [pos EXCEPT ![t] = @ + 1]
            /\ UNCHANGED <<pc, tok>>
       ELSE /\ pc' = [pc EXCEPT ![t] = "locked"]
            /\ tok' = [tok EXCEPT ![t] = <<0>>]
            /\ pos' = [pos EXCEPT ![t] = 0]
  /\ UNCHANGED <<cfg, key, misuse>>
  /\ released' = FALSE
  /\ UNCHANGED <<fvars, evars>>

\* dyn_lock<SharedMutex,N,K,1,K>::unlock: get_lock(i, key).unlock() for i in 0..K-1
spec_unlock(t) ==
  /\ Specialized
  /\ pc[t] = "locked"
  /\ LET ss == [n \in 1..cfg.K |-> get_lock(n - 1, key[t])] IN
       /\ locks' = UnlockAll(locks, ss, t)
       /\ misuse' = (misuse \/ BadUnlock(locks, ss, t))
  /\ Finish(t)
  /\ UNCHANGED cfg
  /\ UNCHANGED <<fvars, evars>>

\* dyn_lock<SharedMutex,N,K,1,K>::lock_shared: i = dist(generator), in 0..K-1
spec_lock_shared_call(t, k) ==
  /\ Specialized
  /\ pc[t] = "idle"
  /\ key' = [key EXCEPT ![t] = k]
  /\ \E i \in 0..(cfg.K - 1) : pos' = [pos EXCEPT ![t] = i]
  /\ pc' = [pc EXCEPT ![t] = "lock_shared"]
  /\ UNCHANGED <<cfg, locks, tok, misuse>>
  /\ released' = FALSE
  /\ UNCHANGED <<fvars, evars>>

\* dyn_lock<SharedMutex,N,K,1,K>::lock_shared: get_lock(i, key).lock_shared(); return i
spec_lock_shared_acquire(t) ==
  /\ Specialized
  /\ pc[t] = "lock_shared"
  /\ LET s == get_lock(pos[t], key[t]) IN
       /\ CanLockShared(locks[s])
       /\ locks' = [locks EXCEPT ![s] = MutexLockShared(@, t)]
  /\ pc' = [pc EXCEPT ![t] = "shared"]
  /\ tok' = [tok EXCEPT ![t] = <<pos[t]>>]
  /\ pos' = [pos EXCEPT ![t] = 0]
  /\ UNCHANGED <<cfg, key, misuse>>
  /\ released' = FALSE
  /\ UNCHANGED <<fvars, evars>>

\* unlock_shared ignoring its token: get_lock(0, key).unlock_shared()
spec_unlock_shared_seed0(t) ==
  /\ Specialized
  /\ pc[t] = "shared"
  /\ LET s == get_lock(0, key[t]) IN
       /\ locks' = [locks EXCEPT ![s] = MutexUnlockShared(@, t)]
       /\ misuse' = (misuse \/ locks[s].shared[t] = 0)
  /\ Finish(t)
  /\ UNCHANGED cfg
  /\ UNCHANGED <<fvars, evars>>

\* dyn_lock<SharedMutex,N,K,1,K>::unlock_shared: get_lock(tok, key).unlock_shared()
spec_unlock_shared(t) ==
  /\ Specialized
  /\ pc[t] = "shared"
  /\ LET s == get_lock(tok[t][1], key[t]) IN
       /\ locks' = [locks EXCEPT ![s] = MutexUnlockShared(@, t)]
       /\ misuse' = (misuse \/ locks[s].shared[t] = 0)
  /\ Finish(t)
  /\ UNCHANGED cfg
  /\ UNCHANGED <<fvars, evars>>

KeyedNext ==
  \E t \in Threads :
    \/ \E k \in Keys : lock_call(t, k)
    \/ lock_acquire(t)
    \/ unlock(t)
    \/ \E k \in Keys : lock_shared_call(t, k)
    \/ lock_shared_acquire(t)
    \/ unlock_shared(t)
    \/ \E k \in Keys : spec_lock_call(t, k)
    \/ spec_lock_acquire(t)
    \/ spec_unlock(t)
    \/ \E k \in Keys : spec_lock_shared_call(t, k)
    \/ spec_lock_shared_acquire(t)
    \/ spec_unlock_shared(t)

(* ----------------------------- fixed variant --------------------------- *)

\* dyn_lock::K(): 1 << bits underlying locks
K == 2 ^ bits

\* size_t is abbreviated to one bit more than a table index needs: the values
\* K..SizeMod-1 are the indices past the end of _locks
SizeMod == 2 * K

\* the values _gen() returns: independent_bits_engine<Engine, bits, uint_fast64_t>
\* yields numbers of bits random bits (of no bits, for bits = 0: the number 0)
gen == 0..(K - 1)

AllLocks == [n \in 1..K |-> n - 1]

FixedInit ==
  /\ bits \in 0..Bits
  /\ flocks = [i \in 0..(K - 1) |-> FreeMutex]
  /\ fpc = [t \in Threads |-> "idle"]
  /\ fop = [t \in Threads |-> "none"]
  /\ fi = [t \in Threads |-> 0]
  /\ lockid = [t \in Threads |-> 0]
  /\ ret = [t \in Threads |-> TRUE]
  /\ glocks = [s \in {0} |-> FreeMutex]
  /\ gtok = [t \in Threads |-> <<>>]
  \* the keyed variant is not in use
  /\ cfg = [N |-> 1, K |-> 1, R |-> 1, W |-> 1]
  /\ locks = [s \in {0} |-> FreeMutex]
  /\ pc = [t \in Threads |-> "unused"]
  /\ key = [t \in Threads |-> 0]
  /\ tok = [t \in Threads |-> <<>>]
  /\ pos = [t \in Threads |-> 0]
  /\ misuse = FALSE
  /\ released = FALSE

\* entry of a member function op that loops over the K locks: bool ret = true; i = 0
Enter(t, op, at) ==
  /\ fpc[t] = "idle"
  /\ fpc' = [fpc EXCEPT ![t] = at]
  /\ fop' = [fop EXCEPT ![t] = op]
  /\ fi' = [fi EXCEPT ![t] = 0]
  /\ ret' = [ret EXCEPT ![t] = TRUE]
  /\ UNCHANGED <<flocks, lockid>>

\* the acquisition loop leaving one lock early: i < K() - 1
AcquiredAllButLast(t) ==
  /\ flocks' = [flocks EXCEPT ![fi[t]] = MutexLock(@, t)]
  /\ IF fi[t] + 1 < K - 1
       THEN /\ fi' = [fi EXCEPT ![t] = @ + 1]
            /\ UNCHANGED fpc
       ELSE /\ fi' = [fi EXCEPT ![t] = 0]
            /\ fpc' = [fpc EXCEPT ![t] = "locked"]
  /\ UNCHANGED <<fop, lockid, ret>>

\* _dlock._locks[i] acquired exclusively; ++i; leave the loop at i = K()
Acquired(t) ==
  /\ flocks' = [flocks EXCEPT ![fi[t]] = MutexLock(@, t)]
  /\ IF fi[t] + 1 < K
       THEN /\ fi' = [fi EXCEPT ![t] = @ + 1]
            /\ UNCHANGED fpc
       ELSE /\ fi' = [fi EXCEPT ![t] = 0]
            /\ fpc' = [fpc EXCEPT ![t] = "locked"]
  /\ UNCHANGED <<fop, lockid, ret>>

\* ret = false; break: on to the rollback loop with i the index that failed
Failed(t) ==
  /\ ret' = [ret EXCEPT ![t] = FALSE]
  /\ fpc' = [fpc EXCEPT ![t] = "rollback"]
  /\ UNCHANGED <<flocks, fop, fi, lockid>>

\* shared_timed_mutex::lock, entry
stm_lock_call(t) == Enter(t, "lock", "lock") /\ UNCHANGED <<bits, kvars, evars>>

\* shared_timed_mutex::lock: _dlock._locks[i].lock()
stm_lock_acquire(t) ==
  /\ fpc[t] = "lock"
  /\ CanLock(flocks[fi[t]])
  /\ Acquired(t)
  /\ UNCHANGED <<bits, kvars, evars>>

\* shared_timed_mutex::try_lock, entry
stm_try_lock_call(t) == Enter(t, "try_lock", "try_lock") /\ UNCHANGED <<bits, kvars, evars>>

\* shared_timed_mutex::try_lock: _dlock._locks[i].try_lock()
stm_try_lock_attempt(t) ==
  /\ fpc[t] = "try_lock"
  /\ IF CanLock(flocks[fi[t]]) THEN Acquired(t) ELSE Failed(t)
  /\ UNCHANGED <<bits, kvars, evars>>

\* shared_timed_mutex::try_lock_until, entry
stm_try_lock_until_call(t) ==
  Enter(t, "try_lock_until", "try_lock_until") /\ UNCHANGED <<bits, kvars, evars>>

\* shared_timed_mutex::try_lock_for: return try_lock_until(__clock_t::now() + __rt)
stm_try_lock_for_call(t) ==
  Enter(t, "try_lock_for", "try_lock_until") /\ UNCHANGED <<bits, kvars, evars>>

\* try_lock_until: _dlock._locks[i].try_lock_until(__atime) returns true
stm_try_lock_until_acquire(t) ==
  /\ fpc[t] = "try_lock_until"
  /\ CanLock(flocks[fi[t]])
  /\ Acquired(t)
  /\ UNCHANGED <<bits, kvars, evars>>

\* try_lock_until: _dlock._locks[i].try_lock_until(__atime) times out
stm_try_lock_until_timeout(t) ==
  /\ fpc[t] = "try_lock_until"
  /\ ~CanLock(flocks[fi[t]])
  /\ Failed(t)
  /\ UNCHANGED <<bits, kvars, evars>>

\* try_lock / try_lock_until: while (--i >= 0) _dlock._locks[i].unlock(), with
\* i a size_t: the test is always true.  Below the failed index the loop
\* unlocks what the call acquired.
stm_rollback_unlock(t) ==
  /\ fpc[t] = "rollback"
  /\ fi[t] \in 1..(K - 1)
  /\ fi' = [fi EXCEPT ![t] = (fi[t] + SizeMod - 1) % SizeMod]
  /\ flocks' = [flocks EXCEPT ![fi'[t]] = MutexUnlock(@, t)]
  /\ UNCHANGED <<fpc, fop, lockid, ret>>
  /\ UNCHANGED <<bits, kvars, evars>>

\* the same loop once --i has wrapped around: _locks[i] is past the end of the
\* array, and unlock() on it is undefined: the scan goes on through memory
\* that is not a lock ...
stm_rollback_overrun(t) ==
  /\ fpc[t] = "rollback"
  /\ fi[t] \notin 1..K
  /\ fi' = [fi EXCEPT ![t] = (fi[t] + SizeMod - 1) % SizeMod]
  /\ UNCHANGED <<flocks, fpc, fop, lockid, ret>>
  /\ UNCHANGED <<bits, kvars, evars>>

\* ... or the thread faults (the scan cannot get through the whole address
\* space and back to the array)
stm_rollback_fault(t) ==
  /\ fpc[t] = "rollback"
  /\ fi[t] \notin 1..(K - 1)
  /\ fpc' = [fpc EXCEPT ![t] = "crashed"]
  /\ fi' = [fi EXCEPT ![t] = IF @ = K THEN @ ELSE (@ + SizeMod - 1) % SizeMod]
  /\ UNCHANGED <<flocks, fop, lockid, ret>>
  /\ UNCHANGED <<bits, kvars, evars>>

\* unlock with the loop starting at i = 1: lock 0 stays held
stm_unlock_from_1(t) ==
  /\ fpc[t] = "locked"
  /\ flocks' = UnlockAll(flocks, Tail(AllLocks), t)
  /\ fpc' = [fpc EXCEPT ![t] = "idle"]
  /\ fop' = [fop EXCEPT ![t] = "unlock"]
  /\ UNCHANGED <<fi, lockid, ret>>
  /\ UNCHANGED <<bits, kvars, evars>>

\* shared_timed_mutex::unlock: _dlock._locks[i].unlock() for i in 0..K()-1
stm_unlock(t) ==
  /\ fpc[t] = "locked"
  /\ flocks' = UnlockAll(flocks, AllLocks, t)
  /\ fpc' = [fpc EXCEPT ![t] = "idle"]
  /\ fop' = [fop EXCEPT ![t] = "unlock"]
  /\ UNCHANGED <<fi, lockid, ret>>
  /\ UNCHANGED <<bits, kvars, evars>>

\* shared_timed_mutex::lock_shared: _lockid = _gen()
stm_lock_shared_call(t) ==
  /\ fpc[t] = "idle"
  /\ \E g \in gen : lockid' = [lockid EXCEPT ![t] = g]
  /\ fpc' = [fpc EXCEPT ![t] = "lock_shared"]
  /\ fop' = [fop EXCEPT ![t] = "lock_shared"]
  /\ ret' = [ret EXCEPT ![t] = TRUE]
  /\ UNCHANGED <<flocks, fi>>
  /\ UNCHANGED <<bits, kvars, evars>>

\* lock_shared calling _dlock._locks[_lockid].lock(): an exclusive hold
stm_lock_shared_acquire_exclusive(t) ==
  /\ fpc[t] = "lock_shared"
  /\ CanLock(flocks[lockid[t]])
  /\ flocks' = [flocks EXCEPT ![lockid[t]] = MutexLock(@, t)]
  /\ fpc' = [fpc EXCEPT ![t] = "shared"]
  /\ UNCHANGED <<fop, fi, lockid, ret>>
  /\ UNCHANGED <<bits, kvars, evars>>

\* shared_timed_mutex::lock_shared: _dlock._locks[_lockid].lock_shared()
stm_lock_shared_acquire(t) ==
  /\ fpc[t] = "lock_shared"
  /\ CanLockShared(flocks[lockid[t]])
  /\ flocks' = [flocks EXCEPT ![lockid[t]] = MutexLockShared(@, t)]
  /\ fpc' = [fpc EXCEPT ![t] = "shared"]
  /\ UNCHANGED <<fop, fi, lockid, ret>>
  /\ UNCHANGED <<bits, kvars, evars>>

\* shared_timed_mutex::try_lock_shared:
\* _lockid = _gen(); return _dlock._locks[_lockid].try_lock_shared()
stm_try_lock_shared(t) ==
  /\ fpc[t] = "idle"
  /\ \E g \in gen :
       IF CanLockShared(flocks[g])
         THEN /\ flocks' = [flocks EXCEPT ![g] = MutexLockShared(@, t)]
              /\ lockid' = [lockid EXCEPT ![t] = g]
              /\ fpc' = [fpc EXCEPT ![t] = "shared"]
              /\ ret' = [ret EXCEPT ![t] = TRUE]
         ELSE /\ ret' = [ret EXCEPT ![t] = FALSE]
              /\ lockid' = [lockid EXCEPT ![t] = 0]
              /\ UNCHANGED <<flocks, fpc>>
  /\ fop' = [fop EXCEPT ![t] = "try_lock_shared"]
  /\ UNCHANGED fi
  /\ UNCHANGED <<bits, kvars, evars>>

\* shared_timed_mutex::try_lock_shared_until: _lockid = _gen()
stm_try_lock_shared_until_call(t) ==
  /\ fpc[t] = "idle"
  /\ \E g \in gen : lockid' = [lockid EXCEPT ![t] = g]
  /\ fpc' = [fpc EXCEPT ![t] = "try_lock_shared_timed"]
  /\ fop' = [fop EXCEPT ![t] = "try_lock_shared_until"]
  /\ ret' = [ret EXCEPT ![t] = TRUE]
  /\ UNCHANGED <<flocks, fi>>
  /\ UNCHANGED <<bits, kvars, evars>>

\* shared_timed_mutex::try_lock_shared_for: _lockid = _gen()
stm_try_lock_shared_for_call(t) ==
  /\ fpc[t] = "idle"
  /\ \E g \in gen : lockid' = [lockid EXCEPT ![t] = g]
  /\ fpc' = [fpc EXCEPT ![t] = "try_lock_shared_timed"]
  /\ fop' = [fop EXCEPT ![t] = "try_lock_shared_for"]
  /\ ret' = [ret EXCEPT ![t] = TRUE]
  /\ UNCHANGED <<flocks, fi>>
  /\ UNCHANGED <<bits, kvars, evars>>

\* _dlock._locks[_lockid].try_lock_shared_until / _for returns true
stm_try_lock_shared_timed_acquire(t) ==
  /\ fpc[t] = "try_lock_shared_timed"
  /\ CanLockShared(flocks[lockid[t]])
  /\ flocks' = [flocks EXCEPT ![lockid[t]] = MutexLockShared(@, t)]
  /\ fpc' = [fpc EXCEPT ![t] = "shared"]
  /\ UNCHANGED <<fop, fi, lockid, ret>>
  /\ UNCHANGED <<bits, kvars, evars>>

\* a timed-out shared attempt that reports failure but keeps a shared hold
stm_try_lock_shared_timed_timeout_keeps(t) ==
  /\ fpc[t] = "try_lock_shared_timed"
  /\ ~CanLockShared(flocks[lockid[t]])
  /\ flocks' = [flocks EXCEPT ![lockid[t]] = MutexLockShared(@, t)]
  /\ fpc' = [fpc EXCEPT ![t] = "idle"]
  /\ ret' = [ret EXCEPT ![t] = FALSE]
  /\ lockid' = [lockid EXCEPT ![t] = 0]
  /\ UNCHANGED <<fop, fi>>
  /\ UNCHANGED <<bits, kvars, evars>>

\* _dlock._locks[_lockid].try_lock_shared_until / _for times out
stm_try_lock_shared_timed_timeout(t) ==
  /\ fpc[t] = "try_lock_shared_timed"
  /\ ~CanLockShared(flocks[lockid[t]])
  /\ fpc' = [fpc EXCEPT ![t] = "idle"]
  /\ ret' = [ret EXCEPT ![t] = FALSE]
  /\ lockid' = [lockid EXCEPT ![t] = 0]
  /\ UNCHANGED <<flocks, fop, fi>>
  /\ UNCHANGED <<bits, kvars, evars>>

\* unlock_shared releasing _locks[0] whatever _lockid is
stm_unlock_shared_lock0(t) ==
  /\ fpc[t] = "shared"
  /\ flocks' = [flocks EXCEPT ![0] = MutexUnlockShared(@, t)]
  /\ fpc' = [fpc EXCEPT ![t] = "idle"]
  /\ fop' = [fop EXCEPT ![t] = "unlock_shared"]
  /\ lockid' = [lockid EXCEPT ![t] = 0]
  /\ UNCHANGED <<fi, ret>>
  /\ UNCHANGED <<bits, kvars, evars>>

\* shared_timed_mutex::unlock_shared: _dlock._locks[_lockid].unlock_shared()
stm_unlock_shared(t) ==
  /\ fpc[t] = "shared"
  /\ flocks' = [flocks EXCEPT ![lockid[t]] = MutexUnlockShared(@, t)]
  /\ fpc' = [fpc EXCEPT ![t] = "idle"]
  /\ fop' = [fop EXCEPT ![t] = "unlock_shared"]
  /\ lockid' = [lockid EXCEPT ![t] = 0]
  /\ UNCHANGED <<fi, ret>>
  /\ UNCHANGED <<bits, kvars, evars>>

\* the steps a thread takes inside a call
FixedStep(t) ==
  \/ stm_lock_acquire(t)
  \/ stm_try_lock_attempt(t)
  \/ stm_try_lock_until_acquire(t)
  \/ stm_try_lock_until_timeout(t)
  \/ stm_rollback_unlock(t)
  \/ stm_rollback_overrun(t)
  \/ stm_rollback_fault(t)
  \/ stm_lock_shared_acquire(t)
  \/ stm_try_lock_shared_timed_acquire(t)
  \/ stm_try_lock_shared_timed_timeout(t)

FixedNext ==
  \E t \in Threads :
    \/ stm_lock_call(t)
    \/ stm_try_lock_call(t)
    \/ stm_try_lock_until_call(t)
    \/ stm_try_lock_for_call(t)
    \/ stm_unlock(t)
    \/ stm_lock_shared_call(t)
    \/ stm_try_lock_shared(t)
    \/ stm_try_lock_shared_until_call(t)
    \/ stm_try_lock_shared_for_call(t)
    \/ stm_unlock_shared(t)
    \/ FixedStep(t)

(* ------------- the two keyed templates run side by side ---------------- *)

RECURSIVE CanLockAll(_, _, _)
\* thread t can lock() the mutexes of table l at the indices ss, in order
CanLockAll(l, ss, t) ==
  IF ss = <<>> THEN TRUE
  ELSE /\ CanLock(l[Head(ss)])
       /\ CanLockAll([l EXCEPT ![Head(ss)] = MutexLock(@, t)], Tail(ss), t)

RECURSIVE LockAll(_, _, _)
LockAll(l, ss, t) ==
  IF ss = <<>> THEN l
  ELSE LockAll([l EXCEPT ![Head(ss)] = MutexLock(@, t)], Tail(ss), t)

\* thread t can lock_shared() the mutexes of table l at the indices ss
CanLockSharedAll(l, ss) == \A n \in 1..Len(ss) : CanLockShared(l[ss[n]])

RECURSIVE LockSharedAll(_, _, _)
LockSharedAll(l, ss, t) ==
  IF ss = <<>> THEN l
  ELSE LockSharedAll([l EXCEPT ![Head(ss)] = MutexLockShared(@, t)], Tail(ss), t)

\* the lock-table indices of the seeds c for key k, in the order of c
SlotsOf(c, k) == [n \in 1..Len(c) |-> get_lock(c[n], k)]

\* the seeds 0..K-1 the specialization's lock and unlock loop over
AllSeeds == [n \in 1..cfg.K |-> n - 1]

\* R = 1, W = K; the general template compiled for these arguments runs on
\* glocks, the specialization on locks, fed the same calls
EquivInit ==
  /\ cfg \in { c \in Configs : c.R = 1 /\ c.W = c.K }
  /\ locks = [s \in 0..(cfg.N - 1) |-> FreeMutex]
  /\ glocks = [s \in 0..(cfg.N - 1) |-> FreeMutex]
  /\ pc = [t \in Threads |-> "idle"]
  /\ key = [t \in Threads |-> 0]
  /\ tok = [t \in Threads |-> <<>>]
  /\ gtok = [t \in Threads |-> <<>>]
  /\ pos = [t \in Threads |-> 0]
  /\ misuse = FALSE
  /\ released = FALSE
  /\ bits = 0
  /\ flocks = [i \in {0} |-> FreeMutex]
  /\ fpc = [t \in Threads |-> "unused"]
  /\ fop = [t \in Threads |-> "none"]
  /\ fi = [t \in Threads |-> 0]
  /\ lockid = [t \in Threads |-> 0]
  /\ ret = [t \in Threads |-> TRUE]

\* lock(key) on both, when it returns on both
both_lock(t, k) ==
  /\ pc[t] = "idle"
  /\ \E c \in hash_choices(cfg.W) :
       /\ CanLockAll(glocks, SlotsOf(c, k), t)
       /\ glocks' = LockAll(glocks, SlotsOf(c, k), t)
       /\ gtok' = [gtok EXCEPT ![t] = c]
  /\ CanLockAll(locks, SlotsOf(AllSeeds, k), t)
  /\ locks' = LockAll(locks, SlotsOf(AllSeeds, k), t)
  /\ tok' = [tok EXCEPT ![t] = <<0>>]
  /\ pc' = [pc EXCEPT ![t] = "locked"]
  /\ key' = [key EXCEPT ![t] = k]
  /\ released' = FALSE
  /\ UNCHANGED <<cfg, pos, misuse, fvars>>

\* unlock(key, token) on both
both_unlock(t) ==
  /\ pc[t] = "locked"
  /\ glocks' = UnlockAll(glocks, SlotsOf(gtok[t], key[t]), t)
  /\ locks' = UnlockAll(locks, SlotsOf(AllSeeds, key[t]), t)
  /\ misuse' = (\/ misuse
                \/ BadUnlock(glocks, SlotsOf(gtok[t], key[t]), t)
                \/ BadUnlock(locks, SlotsOf(AllSeeds, key[t]), t))
  /\ gtok' = [gtok EXCEPT ![t] = <<>>]
  /\ Finish(t)
  /\ UNCHANGED <<cfg, fvars>>

\* lock_shared(key) on both, when it returns on both; where the general
\* template draws a single seed it draws the one the specialization draws
both_lock_shared(t, k) ==
  /\ pc[t] = "idle"
  /\ \E i \in 0..(cfg.K - 1) :
       /\ \E c \in hash_choices(lock_shared_count) :
            /\ Len(c) = 1 => c = <<i>>
            /\ CanLockSharedAll(glocks, SlotsOf(c, k))
            /\ glocks' = LockSharedAll(glocks, SlotsOf(c, k), t)
            /\ gtok' = [gtok EXCEPT ![t] = c]
       /\ CanLockShared(locks[get_lock(i, k)])
       /\ locks' = [locks EXCEPT ![get_lock(i, k)] = MutexLockShared(@, t)]
       /\ tok' = [tok EXCEPT ![t] = <<i>>]
  /\ pc' = [pc EXCEPT ![t] = "shared"]
  /\ key' = [key EXCEPT ![t] = k]
  /\ released' = FALSE
  /\ UNCHANGED <<cfg, pos, misuse, fvars>>

\* unlock_shared(key, token) on both
both_unlock_shared(t) ==
  /\ pc[t] = "shared"
  /\ glocks' = UnlockSharedAll(glocks, SlotsOf(gtok[t], key[t]), t)
  /\ locks' = UnlockSharedAll(locks, SlotsOf(tok[t], key[t]), t)
  /\ misuse' = (\/ misuse
                \/ BadUnlockShared(glocks, SlotsOf(gtok[t], key[t]), t)
                \/ BadUnlockShared(locks, SlotsOf(tok[t], key[t]), t))
  /\ gtok' = [gtok EXCEPT ![t] = <<>>]
  /\ Finish(t)
  /\ UNCHANGED <<cfg, fvars>>

EquivNext ==
  \E t \in Threads :
    \/ \E k \in Keys : both_lock(t, k)
    \/ both_unlock(t)
    \/ \E k \in Keys : both_lock_shared(t, k)
    \/ both_unlock_shared(t)

(* ---------------------------- specifications --------------------------- *)

\* threads using the keyed variant
Spec == KeyedInit /\ [][KeyedNext]_vars

\* threads using the fixed variant, each with its own handle
SpecFixed == FixedInit /\ [][FixedNext]_vars

\* the two keyed templates, R = 1 and W = K, fed the same calls
SpecEquiv == EquivInit /\ [][EquivNext]_vars

\* the same under a fair scheduler: a thread inside a call keeps running, and
\* a timed wait ends
SpecFixedFair == SpecFixed /\ \A t \in Threads : WF_vars(FixedStep(t))

\* fair scheduling, every thread releasing after its acquisition returns
SpecFixedLive ==
  /\ SpecFixed
  /\ \A t \in Threads : WF_vars(FixedStep(t))
  /\ \A t \in Threads : WF_vars(stm_unlock(t) \/ stm_unlock_shared(t))

\* either variant: threads using a keyed table, or threads using the fixed
\* variant
SpecAll == (KeyedInit \/ FixedInit) /\ [][KeyedNext \/ FixedNext]_vars

(* ------------------------ keyed variant: properties -------------------- *)

Slots == 0..(cfg.N - 1)

\* the seeds whose lock-table slots a lock(key) call of thread t takes
WriterSeeds(t) == IF Specialized THEN 0..(cfg.K - 1) ELSE Range(tok[t])

\* thread t is inside lock(key), or between lock(key) and unlock(key, token)
Writing(t) == pc[t] \in {"lock", "locked"}

\* how often seed-token c of key k names lock-table slot s
Times(c, k, s) == Cardinality({ n \in 1..Len(c) : get_lock(c[n], k) = s })

RECURSIVE SumShared(_, _)
SumShared(t, S) ==
  IF S = {} THEN 0
  ELSE LET s == CHOOSE x \in S : TRUE
       IN locks[s].shared[t] + SumShared(t, S \ {s})

\* the number of shared holds thread t has on the table
SharedHolds(t) == SumShared(t, Slots)

\* the slots thread t owns exclusively
ExclHeld(t) == { s \in Slots : locks[s].excl = t }

\* C1: general template, R+W > K: on one key no thread is between lock_shared
\* and unlock_shared while another is between lock and unlock.
C1_ReaderWriterExclusion ==
  (~Specialized /\ cfg.R + cfg.W > cfg.K) =>
    \A t, u \in Threads :
      ~(pc[t] = "shared" /\ pc[u] = "locked" /\ key[t] = key[u])

WritersIntersect ==
  \A t, u \in Threads :
    (t # u /\ Writing(t) /\ Writing(u) /\ key[t] = key[u]) =>
      /\ WriterSeeds(t) \cap WriterSeeds(u) # {}
      /\ ~(pc[t] = "locked" /\ pc[u] = "locked")

NextSlot(t) ==
  IF Specialized THEN get_lock(pos[t], key[t])
  ELSE get_lock(tok[t][pos[t]], key[t])

\* thread t is blocked in an acquisition by a hold of thread u
WaitsFor(t, u) ==
  \/ /\ pc[t] = "lock"
     /\ \/ locks[NextSlot(t)].excl = u
        \/ locks[NextSlot(t)].shared[u] > 0
  \/ /\ pc[t] = "lock_shared"
     /\ locks[NextSlot(t)].excl = u

\* C4: calls on different keys, or a reader and a writer on one key, never
\* reach a circular wait.
C4_NoCircularWait ==
  \A t, u \in Threads :
    (t # u /\ (key[t] # key[u] \/ pc[t] # pc[u])) =>
      ~(WaitsFor(t, u) /\ WaitsFor(u, t))

\* C8: general template: a returned lock_shared(key) holds exactly R shared
\* locks and its token has size R; a returned lock(key) holds a token of size W.
C8_TokenSizes ==
  ~Specialized =>
    \A t \in Threads :
      /\ pc[t] = "shared" => (Len(tok[t]) = cfg.R /\ SharedHolds(t) = cfg.R)
      /\ pc[t] = "locked" => Len(tok[t]) = cfg.W

\* what thread t holds is what the call it is in has acquired so far
HoldsWhatItAcquired(t) ==
  LET got == IF pc[t] \in {"lock", "lock_shared"}
               THEN (IF Specialized
                       THEN (IF pc[t] = "lock"
                               THEN [n \in 1..pos[t] |-> n - 1] ELSE <<>>)
                       ELSE SubSeq(tok[t], 1, pos[t] - 1))
             ELSE IF pc[t] = "locked" /\ Specialized
               THEN [n \in 1..cfg.K |-> n - 1]
             ELSE tok[t]
  IN /\ pc[t] \in {"lock", "locked"} =>
          /\ SharedHolds(t) = 0
          /\ ExclHeld(t) = { get_lock(got[n], key[t]) : n \in 1..Len(got) }
     /\ pc[t] \in {"lock_shared", "shared"} =>
          /\ ExclHeld(t) = {}
          /\ \A s \in Slots : locks[s].shared[t] = Times(got, key[t], s)
     /\ pc[t] = "idle" => (ExclHeld(t) = {} /\ SharedHolds(t) = 0)

\* C9: with tokens passed unchanged, no release hits a slot its caller does
\* not hold, every thread holds exactly what its call in progress acquired,
\* and when every acquisition has been released the whole table is free.
C9_TokenCorrectness ==
  /\ ~misuse
  /\ \A t \in Threads : HoldsWhatItAcquired(t)
  /\ (\A t \in Threads : pc[t] = "idle") => \A s \in Slots : locks[s] = FreeMutex

C9_Witness ==
  /\ released
  /\ \A t \in Threads : pc[t] = "idle"
  /\ \A s \in Slots : locks[s] = FreeMutex

(* ------------------------ fixed variant: properties -------------------- *)

\* handle t owns every one of the K underlying locks
HoldsAll(t) == \A i \in 0..(K - 1) : flocks[i].excl = t

\* handle t holds none of the K underlying locks, in either mode
HoldsNone(t) ==
  \A i \in 0..(K - 1) : flocks[i].excl # t /\ flocks[i].shared[t] = 0

\* C3: while one handle is exclusively locked (lock() or a successful
\* try_lock / try_lock_until / try_lock_for has returned, unlock() has not been
\* called) it owns all K locks and no other handle is exclusively locked or
\* shared-locked.
C3_ExclusiveExcludes ==
  \A t, u \in Threads :
    (t # u /\ fpc[t] = "locked") =>
      (HoldsAll(t) /\ fpc[u] \notin {"locked", "shared"})

C3_Witness ==
  \E t, u \in Threads :
    /\ t # u
    /\ fpc[t] = "locked" /\ fop[t] = "try_lock_until"
    /\ fpc[u] = "lock_shared" /\ lockid[u] = K - 1

\* C5: try_lock(): once the attempt on lock f has failed and the locks
\* 0..f-1 are released again, the call returns false holding nothing; a call
\* that returns true holds all K.
C5_TryLockAllOrNothing ==
  [][\A t \in Threads :
       fop[t] = "try_lock" =>
         /\ (fpc[t] = "rollback" /\ fi[t] = 0 /\ <<fpc[t], fi[t]>>' # <<fpc[t], fi[t]>>)
              => (fpc'[t] = "idle" /\ ~ret'[t] /\ HoldsNone(t)')
         /\ (fpc[t] = "try_lock" /\ fpc'[t] = "locked") => HoldsAll(t)']_vars

TimedOps == {"try_lock_until", "try_lock_for"}

\* C6: try_lock_until / try_lock_for end in one of two ways only: returned
\* true with all K locks held, or returned false with none held (so that
\* another thread can acquire all K).
C6_TimedAllOrNothing ==
  \A t \in Threads :
    fop[t] \in TimedOps =>
      /\ fpc[t] = "locked" => (ret[t] /\ HoldsAll(t))
      /\ fpc[t] = "idle" => (~ret[t] /\ HoldsNone(t))
      /\ fpc[t] # "crashed"

\* thread t is inside a try_* call
InTryCall(t) ==
  fpc[t] \in {"try_lock", "try_lock_until", "rollback", "crashed",
              "try_lock_shared_timed"}

\* C7: every try_* call returns.
C7_TryCallsReturn == \A t \in Threads : InTryCall(t) ~> ~InTryCall(t)

(* ----------------------- side by side: properties ---------------------- *)

\* C10: for R=1, W=K the general template and the specialization, given the
\* same calls, hold the same lock-table slots in the same modes (writer: all K
\* candidates exclusive, reader: one candidate shared).
C10_SameSlots ==
  /\ \A s \in Slots : glocks[s] = locks[s]
  /\ \A t \in Threads :
       /\ pc[t] = "locked" => Len(gtok[t]) = cfg.K
       /\ pc[t] = "shared" => Len(gtok[t]) = 1

(* ------------------- fixed variant: further properties ----------------- *)

\* handle t is inside an exclusive acquisition: lock, try_lock, try_lock_until
\* or try_lock_for, up to and including the rollback loop
InExclusiveCall(t) == fpc[t] \in {"lock", "try_lock", "try_lock_until", "rollback"}

\* C11: K = 1 (bits = 0): every exclusive and every shared acquisition uses
\* lock 0, an exclusively-locked handle coexists with no other locked handle,
\* and the handle behaves exactly like the single mutex: it holds lock 0 in
\* the mode of its state, and a try on the held mutex just returns false (no
\* loop counter leaves index 0, no call faults).
C11_SingleLock ==
  bits = 0 =>
    /\ \A t \in Threads :
         /\ lockid[t] = 0
         /\ fpc[t] \in {"lock", "try_lock", "try_lock_until"} => fi[t] = 0
    /\ \A t, u \in Threads :
         (t # u /\ fpc[t] = "locked") => fpc[u] \notin {"locked", "shared"}
    /\ \A t \in Threads :
         /\ fpc[t] = "locked" <=> flocks[0].excl = t
         /\ fpc[t] = "shared" <=> flocks[0].shared[t] = 1
         /\ fpc[t] = "rollback" => fi[t] = 0
         /\ fpc[t] # "crashed"

\* C12: lock i is owned exclusively only by a handle that is exclusively
\* locked or inside an exclusive acquisition or its rollback; the shared
\* holders of lock i are exactly the shared-locked handles that remember i,
\* one hold each, and the remembered index is in 0..K-1; a handle back from
\* unlock() or unlock_shared() is unlocked and holds nothing.
C12_Accounting ==
  /\ \A i \in 0..(K - 1) :
       /\ flocks[i].excl # NoThread =>
            (fpc[flocks[i].excl] = "locked" \/ InExclusiveCall(flocks[i].excl))
       /\ { t \in Threads : flocks[i].shared[t] > 0 }
            = { t \in Threads : fpc[t] = "shared" /\ lockid[t] = i }
       /\ \A t \in Threads : flocks[i].shared[t] <= 1
  /\ \A t \in Threads :
       /\ lockid[t] \in 0..(K - 1)
       /\ fop[t] \in {"unlock", "unlock_shared"} => (fpc[t] = "idle" /\ HoldsNone(t))

C12_Witness ==
  /\ bits = Bits
  /\ \E t, u \in Threads :
       /\ t # u
       /\ fop[t] = "unlock" /\ fpc[t] = "idle"
       /\ fpc[u] = "shared" /\ lockid[u] = K - 1 /\ flocks[K - 1].shared[u] = 1

\* the step is taken by handle t: no other handle's state changes
StepOf(t) ==
  \A u \in Threads \ {t} :
    <<fpc[u], fop[u], fi[u], lockid[u], ret[u]>>'
      = <<fpc[u], fop[u], fi[u], lockid[u], ret[u]>>

SharedTryOps == {"try_lock_shared", "try_lock_shared_until", "try_lock_shared_for"}

\* handle t returns false from try_lock_shared / try_lock_shared_until /
\* try_lock_shared_for in this step
FailedTryShared(t) ==
  /\ StepOf(t)
  /\ fpc[t] \in {"idle", "try_lock_shared_timed"}
  /\ fpc'[t] = "idle" /\ fop'[t] \in SharedTryOps /\ ~ret'[t]

\* C14: a failed try_lock_shared / try_lock_shared_until / try_lock_shared_for
\* leaves every one of the K locks as it was, the caller holding no shared
\* lock; only _lockid and the generator may change.
C14_FailedTrySharedFrame ==
  [][\A t \in Threads :
       FailedTryShared(t) => (flocks' = flocks /\ HoldsNone(t)')]_vars

C14_Witness ==
  /\ bits = Bits
  /\ \E t, u \in Threads :
       /\ t # u
       /\ fpc[t] = "idle" /\ fop[t] \in SharedTryOps /\ ~ret[t]
       /\ fpc[u] = "locked" /\ HoldsAll(u) /\ HoldsNone(t)

\* C15: the rollback loop of try_lock / try_lock_until, entered after a
\* failure at index f, calls unlock() only on the indices f-1, ..., 0, which
\* the call itself locked, and then stops: its counter never names an index
\* outside 0..K-1 and the call does not fault.
C15_RollbackInBounds ==
  \A t \in Threads :
    /\ fpc[t] = "rollback" =>
         /\ fi[t] \in 0..(K - 1)
         /\ \A i \in 0..(fi[t] - 1) : flocks[i].excl = t
    /\ fpc[t] # "crashed"

\* handle t is in lock() or lock_shared(), at a mutex it cannot get now
Blocked(t) ==
  \/ fpc[t] = "lock" /\ ~CanLock(flocks[fi[t]])
  \/ fpc[t] = "lock_shared" /\ ~CanLockShared(flocks[lockid[t]])

\* thread t still has something to do: it is inside a call, or has to
\* release; a call whose rollback loop has nothing left to release (next it
\* runs off the array, or faults) does nothing more for the others
Unfinished(t) ==
  /\ fpc[t] \notin {"idle", "crashed"}
  /\ ~(fpc[t] = "rollback" /\ fi[t] \notin 1..(K - 1))

NoAllBlocked ==
  (\E t \in Threads : Unfinished(t)) =>
    \E t \in Threads : Unfinished(t) /\ ~Blocked(t)

\* handle u holds the mutex handle t is waiting at
HoldsWanted(u, t) ==
  \/ /\ fpc[t] = "lock"
     /\ \/ flocks[fi[t]].excl = u
        \/ flocks[fi[t]].shared[u] > 0
  \/ /\ fpc[t] = "lock_shared"
     /\ flocks[lockid[t]].excl = u

InBlockingCall(t) == fpc[t] \in {"lock", "lock_shared"}

\* a fair underlying mutex: no thread stays at a mutex forever unless some
\* other thread holds that mutex forever
FairMutex ==
  \A t \in Threads :
    <>[]InBlockingCall(t) => \E u \in Threads \ {t} : <>[]HoldsWanted(u, t)

\* C16: in no reachable state is every unfinished thread blocked, and with a
\* fair scheduler and a fair underlying mutex every lock() and lock_shared()
\* call returns.
C16_DeadlockFree ==
  /\ []NoAllBlocked
  /\ FairMutex => \A t \in Threads : InBlockingCall(t) ~> ~InBlockingCall(t)

C16_Witness ==
  /\ bits = Bits
  /\ \E t, u \in Threads :
       /\ t # u
       /\ fpc[t] = "lock" /\ fi[t] = K - 1 /\ Blocked(t)
       /\ fpc[u] = "shared" /\ HoldsWanted(u, t)

(* ------------------- keyed variant: further properties ----------------- *)

\* the seeds whose slots the acquisition of thread t has locked so far, in
\* the order it locked them
AcquiredSeeds(t) ==
  IF Specialized
    THEN (IF pc[t] = "lock" THEN SubSeq(AllSeeds, 1, pos[t])
          ELSE IF pc[t] = "locked" THEN AllSeeds
          ELSE IF pc[t] = "shared" THEN tok[t]
          ELSE <<>>)
    ELSE (IF pc[t] \in {"lock", "lock_shared"} THEN SubSeq(tok[t], 1, pos[t] - 1)
          ELSE IF pc[t] \in {"locked", "shared"} THEN tok[t]
          ELSE <<>>)

\* C13: within one lock(key) or lock_shared(key) call the lock-table slots
\* h(i, key) % N are acquired in strictly ascending order of slot index.
C13_AscendingSlots ==
  \A t \in Threads :
    LET ss == SlotsOf(AcquiredSeeds(t), key[t])
    IN \A n \in 1..(Len(ss) - 1) : ss[n] < ss[n + 1]

\* C17: the lock-table slots of the seeds one lock(key) call acquires are
\* pairwise distinct, and the call never waits for a mutex it owns itself.
C17_NoSelfDeadlock ==
  \A t \in Threads :
    /\ Writing(t) =>
         \A i, j \in WriterSeeds(t) :
           i # j => get_lock(i, key[t]) # get_lock(j, key[t])
    /\ pc[t] = "lock" => locks[NextSlot(t)].excl # t

(* ------------------------ both variants: properties -------------------- *)

\* no thread holds the fixed variant exclusively or is inside an exclusive
\* acquisition of it
NoWriterFixed ==
  \A u \in Threads : fpc[u] # "locked" /\ ~InExclusiveCall(u)

\* no thread holds a key of the table exclusively or is inside lock(key)
NoWriterKeyed == \A u \in Threads : ~Writing(u)

\* C18: while no thread holds or is acquiring exclusively, a lock_shared in
\* progress can take its lock, whichever it chose and whatever shared locks
\* are held, and try_lock_shared and its timed forms succeed on every index.
C18_ReadersShare ==
  /\ NoWriterFixed =>
       /\ \A t \in Threads :
            /\ fpc[t] = "lock_shared" => ENABLED stm_lock_shared_acquire(t)
            /\ fpc[t] = "try_lock_shared_timed" =>
                 /\ ENABLED stm_try_lock_shared_timed_acquire(t)
                 /\ ~ENABLED stm_try_lock_shared_timed_timeout(t)
       /\ \A g \in gen : CanLockShared(flocks[g])
  /\ NoWriterKeyed =>
       \A t \in Threads :
         pc[t] = "lock_shared" =>
           ENABLED (lock_shared_acquire(t) \/ spec_lock_shared_acquire(t))

C18_Witness ==
  /\ bits = Bits
  /\ \E t, u \in Threads :
       /\ t # u
       /\ fpc[t] = "shared" /\ fpc[u] = "shared"
       /\ lockid[t] = K - 1 /\ lockid[u] = K - 1
       /\ flocks[K - 1].shared[t] = 1 /\ flocks[K - 1].shared[u] = 1

====
